---------------------------- MODULE Spec2Model ----------------------------
(***************************************************************************)
(* A model of the optical channels of SeQUeNCe                             *)
(* (src/sequence/components/optical_channel.py): the time-bin slot         *)
(* scheduler, QuantumChannel and ClassicalChannel, together with the part  *)
(* of the timeline they use (now, schedule, dispatch in time order).       *)
(*                                                                         *)
(* Units.  The program counts time in picoseconds (PS_PER_SECOND = 10^12)  *)
(* and compares the fractional part of a slot index with EPSILON.  TLC's   *)
(* integers are 32 bits wide, so the model counts time in a coarser unit:  *)
(* PS_PER_SECOND time units per second and a tolerance EPSILON_MPFR given  *)
(* as a fraction.  The set Frequencies keeps the cases of the program:     *)
(* a frequency so low that one time unit moves the slot index by no more   *)
(* than the tolerance, frequencies whose period is a whole or a fractional *)
(* number of time units, and a frequency above one slot per time unit.     *)
(* All arithmetic is exact (the program uses 200-bit mpfr values, exact on *)
(* every quotient that occurs here).                                       *)
(***************************************************************************)
EXTENDS Integers, Sequences, FiniteSets, TLC

VARIABLES
    now,        \* timeline.now()
    queue,      \* timeline: the events scheduled and not yet dispatched
    nsched,     \* timeline: number of events scheduled so far
    qc,         \* the QuantumChannel object
    cc,         \* the ClassicalChannel object
    assigned,   \* the nodes' channel registrations
    calls,      \* number of transmit calls that passed their checks, by
                \* channel
    last,       \* the operation executed last, with its arguments and outcome
    txlog,      \* the slots consumed (-1: none) by the QuantumChannel.transmit
                \* calls that passed their checks at the current time
    routing,    \* a StaticRoutingProtocol object and its last operation
    protocol,   \* an EntanglementProtocol object, the memories of its
                \* node and its last operation
    accepted    \* history kept by SpecFifo: for every message a
                \* ClassicalChannel.transmit call accepted, the time of the
                \* call and the arrival event it scheduled

vars == <<now, queue, nsched, qc, cc, assigned, calls, last, txlog, routing,
          protocol, accepted>>

\* the variables of the channels and of the protocol stack
channels == <<now, queue, nsched, qc, cc, assigned, calls, last, txlog>>

stack == <<routing, protocol, accepted>>

----------------------------------------------------------------------------
(* Bounds of the model *)

MaxTime == 3
MaxSlot == 9
MaxBins == 2
MaxSends == 2
MaxQubits == 1
MaxMsgs == 2

(* Program constants, in the model's units *)

PS_PER_SECOND == 6

EPSILON_MPFR == <<1, 4>>

Frequencies == {1, 4, 12}

ConvFrequencies == {1, 2, 3, 4, 5, 6, 7, 12, 18}

None == "None"

Nodes == {"n1", "n2"}

----------------------------------------------------------------------------
(* The slot arithmetic *)

Max(a, b) == IF a >= b THEN a ELSE b

\* time * frequency / PS_PER_SECOND, rounded up when the fractional part
\* exceeds the tolerance and down otherwise
time_to_timebin_floor(time, frequency) ==
    (time * frequency) \div PS_PER_SECOND

time_to_timebin(time, frequency) ==
    LET n == time * frequency
        q == n \div PS_PER_SECOND
        r == n % PS_PER_SECOND
    IN  IF r * EPSILON_MPFR[2] > EPSILON_MPFR[1] * PS_PER_SECOND
        THEN q + 1
        ELSE q

\* int(time_bin * PS_PER_SECOND / frequency): truncation of a non-negative
\* quotient
timebin_to_time_ceil(time_bin, frequency) ==
    ((time_bin * PS_PER_SECOND) + frequency - 1) \div frequency

timebin_to_time(time_bin, frequency) ==
    (time_bin * PS_PER_SECOND) \div frequency

----------------------------------------------------------------------------
(* heapq on a list: the list is a sequence, position p has children 2p and *)
(* 2p+1 (Python's 0-based 2p+1 and 2p+2)                                   *)

RECURSIVE _siftdown(_, _, _, _)
\* move newitem from position pos up towards startpos
_siftdown(heap, startpos, pos, newitem) ==
    IF pos > startpos /\ newitem < heap[pos \div 2]
    THEN _siftdown([heap EXCEPT ![pos] = heap[pos \div 2]], startpos,
                   pos \div 2, newitem)
    ELSE [heap EXCEPT ![pos] = newitem]

RECURSIVE _siftup_loop(_, _, _)
\* bubble the smaller child up until a leaf is reached; returns <<heap, pos>>
_siftup_loop(heap, pos, endpos) ==
    LET childpos == 2 * pos
        rightpos == childpos + 1
        c == IF rightpos <= endpos /\ ~(heap[childpos] < heap[rightpos])
             THEN rightpos ELSE childpos
    IN  IF childpos <= endpos
        THEN _siftup_loop([heap EXCEPT ![pos] = heap[c]], c, endpos)
        ELSE <<heap, pos>>

_siftup(heap, pos) ==
    LET newitem == heap[pos]
        r == _siftup_loop(heap, pos, Len(heap))
    IN  _siftdown(r[1], pos, r[2], newitem)

heappush_append(heap, item) == Append(heap, item)

heappush(heap, item) ==
    _siftdown(Append(heap, item), 1, Len(heap) + 1, item)

\* heappop returns <<item, heap>>; the caller guards Len(heap) > 0
heappop_last(heap) ==
    <<heap[Len(heap)], SubSeq(heap, 1, Len(heap) - 1)>>

heappop(heap) ==
    LET lastelt == heap[Len(heap)]
        rest == SubSeq(heap, 1, Len(heap) - 1)
    IN  IF rest # <<>>
        THEN <<heap[1], _siftup([rest EXCEPT ![1] = lastelt], 1)>>
        ELSE <<lastelt, rest>>

Range(s) == {s[i] : i \in 1..Len(s)}

IsHeap(s) == \A i \in 2..Len(s) : s[i \div 2] <= s[i]

----------------------------------------------------------------------------
(* Physical parameters.  Probabilities are counted in thousandths: loss,   *)
(* polarization_fidelity and the values of random() are integers, 1000     *)
(* standing for 1.0; random() returns a value of [0.0, 1.0).                *)

One == 1000

SPEED_OF_LIGHT == 2

Distances == {0, 2}

Attenuations == {10}

Fidelities == {1000, 500}

Draws == {0, 995}

Encodings == {"fock", "polarization", "time_bin"}

RECURSIVE Pow10(_)
Pow10(k) == IF k = 0 THEN 1 ELSE 10 * Pow10(k - 1)

\* Python's round(): to the nearest integer, a tie to the even one
round(num, den) ==
    LET q == num \div den
        r == num % den
    IN  IF 2 * r > den \/ (2 * r = den /\ q % 2 = 1) THEN q + 1 ELSE q

\* 1 - 10 ** (distance * attenuation / -10), for the products of Distances
\* and Attenuations (a whole number of tens of dB, at most 30)
LossOf(distance, attenuation) ==
    One - One \div Pow10((distance * attenuation) \div 10)

DelayOf_trunc(distance, light_speed) == distance \div light_speed

DelayOf(distance, light_speed) == round(distance, light_speed)

\* a photon handed to transmit: no loss recorded, no noise applied
Photon(encoding, is_null) ==
    [encoding |-> encoding, is_null |-> is_null, loss |-> <<>>,
     noise |-> FALSE]

Qubits == {Photon(e, n) : e \in Encodings, n \in BOOLEAN}

----------------------------------------------------------------------------
(* The timeline: now(), schedule(event) and the dispatch of the earliest   *)
(* event (time, then priority, then insertion order)                       *)

inf == 2147483647

Event(time, owner, activation, args, priority) ==
    [time |-> time, priority |-> priority, owner |-> owner,
     activation |-> activation, args |-> args]

\* the queue is kept in insertion order
schedule_drop(q, event) == q

schedule(q, event) == Append(q, event)

Before(e1, e2) ==
    \/ e1.time < e2.time
    \/ e1.time = e2.time /\ e1.priority < e2.priority

\* position of the event dispatched next
NextEvent(q) ==
    CHOOSE i \in 1..Len(q) :
        \A j \in 1..Len(q) :
            j # i => \/ Before(q[i], q[j])
                     \/ (~Before(q[j], q[i]) /\ i < j)

Remove(q, i) == SubSeq(q, 1, i - 1) \o SubSeq(q, i + 1, Len(q))

\* the record of an operation: its name, arguments and outcome, the time of
\* the call, the reservations and the queue as the call found them, the slot
\* it reserved or consumed, the photon as it left it, the random trials made
\* and the calls made on the timeline's quantum manager
Call(op, status, arg, ret, t, bins, q, time_bin, photon, trials, qm) ==
    [op |-> op, status |-> status, arg |-> arg, ret |-> ret, now |-> t,
     bins |-> bins, queue |-> q, time_bin |-> time_bin, photon |-> photon,
     trials |-> trials, qm |-> qm]

NoCall(op) == Call(op, "ok", <<>>, -1, -1, <<>>, <<>>, -1, None, <<>>, <<>>)

----------------------------------------------------------------------------
(* QuantumChannel *)

\* QuantumChannel.__init__: the state of a channel just constructed
QuantumChannel(attenuation, distance, polarization_fidelity, light_speed, frequency) ==
    [sender |-> None, receiver |-> None, attenuation |-> attenuation,
     distance |-> distance, polarization_fidelity |-> polarization_fidelity,
     light_speed |-> light_speed, delay |-> -1, loss |-> One,
     frequency |-> frequency, send_bins |-> <<>>]

probe_none(send_bins, time_bin) == time_bin

RECURSIVE probe(_, _)
\* while time_bin in self.send_bins: time_bin += 1
probe(send_bins, time_bin) ==
    IF time_bin \in Range(send_bins)
    THEN probe(send_bins, time_bin + 1)
    ELSE time_bin

\* schedule_transmit: <<the time returned, the new send_bins, the slot>>
schedule_transmit(c, t, min_time) ==
    LET start == Max(min_time, t)
        time_bin == probe(c.send_bins, time_to_timebin(start, c.frequency))
    IN  [ret |-> timebin_to_time(time_bin, c.frequency),
         send_bins |-> heappush(c.send_bins, time_bin),
         time_bin |-> time_bin]

RECURSIVE pop_due(_, _, _, _, _)
\* the loop of transmit: pop the lowest slot while its time is before now;
\* heappop raises IndexError once the list is empty
pop_due(send_bins, time, time_bin, t, frequency) ==
    IF time < t
    THEN IF send_bins = <<>>
         THEN [status |-> "IndexError", send_bins |-> send_bins,
               time |-> time, time_bin |-> time_bin]
         ELSE LET p == heappop(send_bins)
              IN  pop_due(p[2], timebin_to_time(p[1], frequency), p[1], t,
                          frequency)
    ELSE [status |-> "ok", send_bins |-> send_bins, time |-> time,
          time_bin |-> time_bin]

\* the slot check of transmit: skipped when nothing is reserved
remove_lowest_always(send_bins, t, frequency) ==
    LET r == pop_due(send_bins, -1, -1, t, frequency)
    IN  IF r.status = "ok" /\ r.time # t
        THEN [r EXCEPT !.status = "AssertionError"]
        ELSE r

remove_lowest_nocheck(send_bins, t, frequency) ==
    IF Len(send_bins) > 0
    THEN [pop_due(send_bins, -1, -1, t, frequency) EXCEPT !.status = "ok"]
    ELSE [status |-> "ok", send_bins |-> send_bins, time |-> t,
          time_bin |-> -1]

remove_lowest_restore(send_bins, t, frequency) ==
    LET r == remove_lowest_always(send_bins, t, frequency)
    IN  IF Len(send_bins) = 0
        THEN [status |-> "ok", send_bins |-> send_bins, time |-> t,
              time_bin |-> -1]
        ELSE IF r.status = "ok" THEN r
        ELSE [r EXCEPT !.send_bins = send_bins]

remove_lowest(send_bins, t, frequency) ==
    IF Len(send_bins) > 0
    THEN LET r == pop_due(send_bins, -1, -1, t, frequency)
         IN  IF r.status = "ok" /\ r.time # t
             THEN [r EXCEPT !.status = "AssertionError"]
             ELSE r
    ELSE [status |-> "ok", send_bins |-> send_bins, time |-> t,
          time_bin |-> -1]

\* the loss trial of a qubit that is not Fock-encoded
photon_kept_geq(draw, loss, is_null) == draw >= loss \/ is_null

photon_kept_nonull(draw, loss, is_null) == draw > loss

photon_kept_always(draw, loss, is_null) == TRUE

photon_kept(draw, loss, is_null) == draw > loss \/ is_null

\* the calls on the quantum manager in the Fock branch: the loss is applied
\* to the state key
fock_loss_skip(c, qubit) == <<>>

fock_loss_twice(c, qubit) ==
    <<<<"add_loss", c.loss>>, <<"add_loss", c.loss>>>>

fock_loss(c, qubit) == <<<<"add_loss", c.loss>>>>

\* the calls on the quantum manager in the branch of a kept photon
kept_manager(other_tl) ==
    IF other_tl THEN <<<<"move_manage_to_server">>>> ELSE <<>>

\* the photon after the branch of a kept photon
kept_photon_nobook(c, qubit, draw2) ==
    IF qubit.encoding = "polarization" /\ draw2 > c.polarization_fidelity
    THEN [qubit EXCEPT !.noise = TRUE]
    ELSE qubit

kept_photon_noisy(c, qubit, draw2) ==
    LET q1 == IF qubit.is_null THEN [qubit EXCEPT !.loss = Append(@, c.loss)]
              ELSE qubit
    IN  IF q1.encoding = "polarization" /\ draw2 >= c.polarization_fidelity
        THEN [q1 EXCEPT !.noise = TRUE]
        ELSE q1

kept_photon_anyenc(c, qubit, draw2) ==
    LET q1 == IF qubit.is_null THEN [qubit EXCEPT !.loss = Append(@, c.loss)]
              ELSE qubit
    IN  IF draw2 > c.polarization_fidelity
        THEN [q1 EXCEPT !.noise = TRUE]
        ELSE q1

kept_photon(c, qubit, draw2) ==
    LET q1 == IF qubit.is_null THEN [qubit EXCEPT !.loss = Append(@, c.loss)]
              ELSE qubit
    IN  IF q1.encoding = "polarization" /\ draw2 > c.polarization_fidelity
        THEN [q1 EXCEPT !.noise = TRUE]
        ELSE q1

\* future_time = self.timeline.now() + self.delay
future_time_now(t, delay) == t

future_time(t, delay) == t + delay

qubit_event(c, t, source, qubit) ==
    Event(future_time(t, c.delay), c.receiver, "receive_qubit",
          <<source, qubit>>, inf)

\* assert self.delay >= 0 and self.loss < 1
initialised_always(c) == TRUE

initialised(c) == c.delay >= 0 /\ c.loss < One

\* assert source == self.sender
source_is_sender_any(c, source) == TRUE

source_is_sender(c, source) == source = c.sender

\* QuantumChannel.transmit: status, the new send_bins and queue, the photon
\* as the call leaves it, the slot consumed (-1: none), the random trials
\* made and the calls made on the quantum manager
qc_transmit(c, t, q, qubit, source, draw1, draw2, other_tl) ==
    LET fail(st, b) == [status |-> st, send_bins |-> b, queue |-> q,
                        photon |-> qubit, time_bin |-> -1, trials |-> <<>>,
                        qm |-> <<>>]
        r == remove_lowest(c.send_bins, t, c.frequency)
    IN  IF c.sender = None THEN fail("AttributeError", c.send_bins)
        ELSE IF ~initialised(c) THEN fail("AssertionError", c.send_bins)
        ELSE IF ~source_is_sender(c, source)
        THEN fail("AssertionError", c.send_bins)
        ELSE IF r.status # "ok" THEN fail(r.status, r.send_bins)
        ELSE IF qubit.encoding = "fock"
        THEN [status |-> "ok", send_bins |-> r.send_bins,
              queue |-> schedule(q, qubit_event(c, t, source, qubit)),
              photon |-> qubit, time_bin |-> r.time_bin, trials |-> <<>>,
              qm |-> fock_loss(c, qubit)]
        ELSE IF photon_kept(draw1, c.loss, qubit.is_null)
        THEN LET ph == kept_photon(c, qubit, draw2)
             IN  [status |-> "ok", send_bins |-> r.send_bins,
                  queue |-> schedule(q, qubit_event(c, t, source, ph)),
                  photon |-> ph, time_bin |-> r.time_bin,
                  trials |-> IF qubit.encoding = "polarization"
                             THEN <<"loss", "noise">> ELSE <<"loss">>,
                  qm |-> kept_manager(other_tl)]
        ELSE [status |-> "ok", send_bins |-> r.send_bins, queue |-> q,
              photon |-> qubit, time_bin |-> r.time_bin,
              trials |-> <<"loss">>, qm |-> <<>>]

----------------------------------------------------------------------------
(* ClassicalChannel *)

MICROSECOND == 1

\* ClassicalChannel.__init__; the delay argument is a fraction <<n, d>>,
\* <<-1, 1>> standing for the default -1
ClassicalChannel(distance, delay) ==
    [sender |-> None, receiver |-> None, attenuation |-> 0,
     distance |-> distance, polarization_fidelity |-> 0,
     light_speed |-> SPEED_OF_LIGHT,
     delay |-> IF delay = <<-1, 1>>
               THEN round(distance + 10 * MICROSECOND * SPEED_OF_LIGHT,
                          SPEED_OF_LIGHT)
               ELSE round(delay[1], delay[2])]

message_event_nopriority(c, t, source, message, priority) ==
    Event(t + c.delay, c.receiver, "receive_message", <<source, message>>,
          inf)

message_event_nodelay(c, t, source, message, priority) ==
    Event(t, c.receiver, "receive_message", <<source, message>>, priority)

message_event_nonow(c, t, source, message, priority) ==
    Event(c.delay, c.receiver, "receive_message", <<source, message>>,
          priority)

message_event(c, t, source, message, priority) ==
    Event(t + c.delay, c.receiver, "receive_message", <<source, message>>,
          priority)

\* ClassicalChannel.transmit: the status and the new queue
cc_transmit(c, t, q, message, source, priority) ==
    IF c.sender = None THEN [status |-> "AttributeError", queue |-> q]
    ELSE IF ~source_is_sender(c, source)
    THEN [status |-> "AssertionError", queue |-> q]
    ELSE [status |-> "ok",
          queue |-> schedule(q, message_event(c, t, source, message,
                                              priority))]

----------------------------------------------------------------------------
(* Messages and the static routing layer *)

MaxDepth == 1

\* the payload of a message that carries none (payload = None)
NonePayload == [none |-> TRUE]

Message(msg_type, receiver) ==
    [msg_type |-> msg_type, receiver |-> receiver, protocol_type |-> None,
     payload |-> NonePayload]

StaticRoutingMessage(msg_type, receiver, payload) ==
    [Message(msg_type, receiver) EXCEPT !.payload = payload]

\* the empty forwarding table
NoTable == [d \in {} |-> None]

\* what the last operation of the routing layer was and did: its arguments,
\* its outcome, the table before it, the delegations to the layer below
\* (_push) and the deliveries to the layer above (_pop)
RCall(op, status, arg, table, down, up) ==
    [op |-> op, status |-> status, arg |-> arg, table |-> table,
     down |-> down, up |-> up]

\* written: for every destination, the next hop of the last operation on the
\* table that succeeded for it
StaticRoutingProtocol(owner, name, forwarding_table) ==
    [owner |-> owner, name |-> name, forwarding_table |-> forwarding_table,
     written |-> forwarding_table,
     last |-> RCall("none", "ok", <<>>, forwarding_table, <<>>, <<>>)]

Put(table, dst, next_node) ==
    [d \in DOMAIN table \cup {dst} |->
        IF d = dst THEN next_node ELSE table[d]]

add_forwarding_rule_overwrite(table, dst, next_node) ==
    [status |-> "ok", table |-> Put(table, dst, next_node)]

add_forwarding_rule(table, dst, next_node) ==
    IF dst \in DOMAIN table
    THEN [status |-> "AssertionError", table |-> table]
    ELSE [status |-> "ok", table |-> Put(table, dst, next_node)]

update_forwarding_rule_ifabsent(table, dst, next_node) ==
    IF dst \in DOMAIN table THEN table ELSE Put(table, dst, next_node)

update_forwarding_rule(table, dst, next_node) == Put(table, dst, next_node)

\* the truth value of a name: None and the empty string are false
Truthy(s) == s # None /\ s # ""

wrap_receiver_dst(p, dst, msg) == StaticRoutingMessage("Enum", dst, msg)

wrap(p, dst, msg) == StaticRoutingMessage("Enum", p.name, msg)

push_nexthop_first(p, dst, msg, next_hop) ==
    LET new_msg == wrap(p, dst, msg)
        ok(hop) == [status |-> "ok",
                    down |-> <<[dst |-> hop, msg |-> new_msg]>>]
    IN  IF dst = p.owner THEN [status |-> "AssertionError", down |-> <<>>]
        ELSE IF Truthy(next_hop) THEN ok(next_hop)
        ELSE IF Truthy(dst)
        THEN IF dst \in DOMAIN p.forwarding_table
             THEN ok(p.forwarding_table[dst])
             ELSE [status |-> "KeyError", down |-> <<>>]
        ELSE [status |-> "Exception", down |-> <<>>]

push_noassert(p, dst, msg, next_hop) ==
    LET new_msg == wrap(p, dst, msg)
        ok(hop) == [status |-> "ok",
                    down |-> <<[dst |-> hop, msg |-> new_msg]>>]
    IN  IF Truthy(dst)
        THEN IF dst \in DOMAIN p.forwarding_table
             THEN ok(p.forwarding_table[dst])
             ELSE [status |-> "KeyError", down |-> <<>>]
        ELSE IF Truthy(next_hop) THEN ok(next_hop)
        ELSE [status |-> "Exception", down |-> <<>>]

\* StaticRoutingProtocol.push: the status and the delegations made
push(p, dst, msg, next_hop) ==
    LET new_msg == wrap(p, dst, msg)
        ok(hop) == [status |-> "ok",
                    down |-> <<[dst |-> hop, msg |-> new_msg]>>]
    IN  IF dst = p.owner THEN [status |-> "AssertionError", down |-> <<>>]
        ELSE IF Truthy(dst)
        THEN IF dst \in DOMAIN p.forwarding_table
             THEN ok(p.forwarding_table[dst])
             ELSE [status |-> "KeyError", down |-> <<>>]
        ELSE IF Truthy(next_hop) THEN ok(next_hop)
        ELSE [status |-> "Exception", down |-> <<>>]

pop_whole(p, src, msg) == <<[src |-> src, msg |-> msg]>>

\* StaticRoutingProtocol.pop: the deliveries made
pop(p, src, msg) == <<[src |-> src, msg |-> msg.payload]>>

----------------------------------------------------------------------------
(* The entanglement protocol interface *)

EntanglementProtocol(owner, name) ==
    [owner |-> owner, name |-> name, rule |-> None, protocol_type |-> None,
     memories |-> <<>>]

MaxMemories == 2

\* the memories of the node and the states a memory can be put in
Memories == {"mem" \o ToString(i) : i \in 1..MaxMemories}

MemoryStates == {"RAW", "OCCUPIED", "ENTANGLED"}

\* a protocol object, the state held by each memory of its node, and what
\* its last operation was and which requests it made to the resource
\* manager of the owning node
\* phase, peer, ready: where the instance is in its lifecycle, the remote
\* protocol bound by set_others and the answer of the last is_ready
ProtocolState(obj, memory) ==
    [obj |-> obj, memory |-> memory, op |-> "none", arg |-> <<>>,
     requests |-> <<>>, phase |-> "uninitialized", peer |-> None,
     ready |-> FALSE]

\* EntanglementProtocol.update_resource_manager
update_resource_manager_direct(s, memory, state) ==
    [s EXCEPT !.memory = [@ EXCEPT ![memory] = state],
              !.op = "update_resource_manager", !.arg = <<memory, state>>,
              !.requests = <<>>]

update_resource_manager(s, memory, state) ==
    [s EXCEPT !.op = "update_resource_manager", !.arg = <<memory, state>>,
              !.requests = <<<<"update", s.obj.name, memory, state>>>>]

\* EntanglementProtocol.release
release_memories(s) ==
    [s EXCEPT !.obj = [@ EXCEPT !.memories = <<>>],
              !.op = "release", !.arg = <<>>, !.requests = <<>>]

release(s) == [s EXCEPT !.op = "release", !.arg = <<>>, !.requests = <<>>]

NoStack ==
    /\ accepted = <<>>
    /\ routing = StaticRoutingProtocol("n1", "rp1", NoTable)
    /\ protocol = ProtocolState(EntanglementProtocol("n1", "ep1"),
                                [m \in {} |-> None])

----------------------------------------------------------------------------
(* The operations on the quantum channel and the timeline *)

\* QuantumChannel.init
QInit ==
    /\ qc' = [qc EXCEPT !.delay = DelayOf(qc.distance, qc.light_speed),
                        !.loss = LossOf(qc.distance, qc.attenuation)]
    /\ last' = NoCall("qc.init")
    /\ UNCHANGED <<stack, now, queue, nsched, cc, assigned, calls, txlog>>

\* OpticalChannel.set_distance on the quantum channel
QSetDistance(distance) ==
    /\ distance # qc.distance
    /\ qc' = [qc EXCEPT !.distance = distance]
    /\ last' = [NoCall("qc.set_distance") EXCEPT !.arg = <<distance>>]
    /\ UNCHANGED <<stack, now, queue, nsched, cc, assigned, calls, txlog>>

\* QuantumChannel.set_ends
QSetEnds_noregister(sender, receiver) ==
    /\ qc' = [qc EXCEPT !.sender = sender, !.receiver = receiver]
    /\ last' = [NoCall("qc.set_ends") EXCEPT !.arg = <<sender, receiver>>]
    /\ UNCHANGED <<stack, now, queue, nsched, cc, assigned, calls, txlog>>

QSetEnds(sender, receiver) ==
    /\ qc' = [qc EXCEPT !.sender = sender, !.receiver = receiver]
    /\ assigned' = [assigned EXCEPT
                       !.qchannels = @ \cup {<<sender, receiver>>}]
    /\ last' = [NoCall("qc.set_ends") EXCEPT !.arg = <<sender, receiver>>]
    /\ UNCHANGED <<stack, now, queue, nsched, cc, calls, txlog>>

\* QuantumChannel.schedule_transmit
QScheduleTransmit(min_time) ==
    /\ Len(qc.send_bins) < MaxBins
    /\ LET r == schedule_transmit(qc, now, min_time)
       IN  /\ qc' = [qc EXCEPT !.send_bins = r.send_bins]
           /\ last' = Call("qc.schedule_transmit", "ok", <<min_time>>, r.ret,
                           now, qc.send_bins, queue, r.time_bin, None, <<>>,
                           <<>>)
    /\ UNCHANGED <<stack, now, queue, nsched, cc, assigned, calls, txlog>>

\* QuantumChannel.transmit
QTransmit(max, qubit, source, draw1, draw2, other_tl) ==
    /\ calls.q < max
    /\ LET r == qc_transmit(qc, now, queue, qubit, source, draw1, draw2,
                            other_tl)
       IN  /\ qc' = [qc EXCEPT !.send_bins = r.send_bins]
           /\ queue' = r.queue
           /\ nsched' = nsched + (Len(r.queue) - Len(queue))
           /\ calls' = IF r.status = "ok" THEN [calls EXCEPT !.q = @ + 1]
                       ELSE calls
           /\ txlog' = IF r.status = "ok" THEN Append(txlog, r.time_bin)
                       ELSE txlog
           /\ last' = Call("qc.transmit", r.status,
                           <<qubit, source, draw1, draw2>>, -1, now,
                           qc.send_bins, queue, r.time_bin, r.photon,
                           r.trials, r.qm)
    /\ UNCHANGED <<stack, now, cc, assigned>>

\* the timeline runs an event of some other entity at the next time unit;
\* it never passes the time of an event it still holds
AdvanceTime ==
    /\ now < MaxTime
    /\ \A i \in 1..Len(queue) : now + 1 <= queue[i].time
    /\ now' = now + 1
    /\ last' = NoCall("advance")
    /\ txlog' = <<>>
    /\ UNCHANGED <<stack, queue, nsched, qc, cc, assigned, calls>>

\* the timeline dispatches its earliest event to the receiving node
Dispatch ==
    /\ queue # <<>>
    /\ LET i == NextEvent(queue)
       IN  /\ now' = queue[i].time
           /\ queue' = Remove(queue, i)
           /\ txlog' = IF queue[i].time = now THEN txlog ELSE <<>>
           /\ last' = [NoCall("dispatch") EXCEPT !.arg = <<queue[i]>>,
                                                 !.queue = queue]
    /\ UNCHANGED <<stack, nsched, qc, cc, assigned, calls>>

\* ClassicalChannel.set_ends
CSetEnds(sender, receiver) ==
    /\ cc' = [cc EXCEPT !.sender = sender, !.receiver = receiver]
    /\ assigned' = [assigned EXCEPT
                       !.cchannels = @ \cup {<<sender, receiver>>}]
    /\ last' = [NoCall("cc.set_ends") EXCEPT !.arg = <<sender, receiver>>]
    /\ UNCHANGED <<stack, now, queue, nsched, qc, calls, txlog>>

\* ClassicalChannel.transmit: what the call changes
CTransmitCall(max, message, source, priority) ==
    /\ calls.c < max
    /\ LET r == cc_transmit(cc, now, queue, message, source, priority)
       IN  /\ queue' = r.queue
           /\ nsched' = nsched + (Len(r.queue) - Len(queue))
           /\ calls' = IF r.status = "ok" THEN [calls EXCEPT !.c = @ + 1]
                       ELSE calls
           /\ last' = Call("cc.transmit", r.status,
                           <<message, source, priority>>, -1, now, <<>>,
                           queue, -1, None, <<>>, <<>>)

\* ClassicalChannel.transmit
CTransmit(max, message, source, priority) ==
    /\ CTransmitCall(max, message, source, priority)
    /\ UNCHANGED <<stack, now, qc, cc, assigned, txlog>>

\* ClassicalChannel.transmit, the accepted message kept in the history
FTransmit(max, message, source, priority) ==
    /\ CTransmitCall(max, message, source, priority)
    /\ accepted' = IF last'.status = "ok"
                   THEN Append(accepted, [time |-> now,
                                          event |-> queue'[Len(queue')]])
                   ELSE accepted
    /\ UNCHANGED <<routing, protocol, now, qc, cc, assigned, txlog>>

----------------------------------------------------------------------------
(* Spec: the slot discipline of one quantum channel, for every frequency  *)
(* of Frequencies                                                          *)

SlotQubits == {Photon("time_bin", FALSE)}

SlotDraws == {950}

Init ==
    /\ now = 0
    /\ queue = <<>>
    /\ nsched = 0
    /\ qc \in {QuantumChannel(10, 1, One, SPEED_OF_LIGHT, f) :
                 f \in Frequencies}
    /\ cc = ClassicalChannel(0, <<0, 1>>)
    /\ assigned = [qchannels |-> {}, cchannels |-> {}]
    /\ calls = [q |-> 0, c |-> 0]
    /\ last = NoCall("none")
    /\ txlog = <<>>
    /\ NoStack

Next ==
    \/ QInit
    \/ QSetEnds("n1", "n2")
    \/ \E m \in 0..MaxTime : QScheduleTransmit(m)
    \/ \E q \in SlotQubits, s \in Nodes, d1 \in SlotDraws :
          QTransmit(MaxSends, q, s, d1, 0, FALSE)
    \/ AdvanceTime
    \/ Dispatch

Spec == Init /\ [][Next]_vars

----------------------------------------------------------------------------
(* SpecLoss: the loss and noise model of one quantum channel, for every    *)
(* loss, delay and polarization fidelity of the parameter sets, every kind *)
(* of photon and every outcome of the random draws                         *)

InitLoss ==
    /\ now = 0
    /\ queue = <<>>
    /\ nsched = 0
    /\ qc \in {QuantumChannel(a, d, p, SPEED_OF_LIGHT, 2) :
                 a \in Attenuations, d \in Distances, p \in Fidelities}
    /\ cc = ClassicalChannel(0, <<0, 1>>)
    /\ assigned = [qchannels |-> {}, cchannels |-> {}]
    /\ calls = [q |-> 0, c |-> 0]
    /\ last = NoCall("none")
    /\ txlog = <<>>
    /\ NoStack

NextLoss ==
    \/ QInit
    \/ QSetEnds("n1", "n2")
    \/ \E q \in Qubits, d1 \in Draws, d2 \in Draws, o \in BOOLEAN :
          QTransmit(MaxQubits, q, "n1", d1, d2, o)
    \/ AdvanceTime
    \/ Dispatch

SpecLoss == InitLoss /\ [][NextLoss]_vars

----------------------------------------------------------------------------
(* SpecCC: one classical channel and its timeline                          *)

Messages == {"m1", "m2"}

Priorities == {0, 1}

CDelays == {<<-1, 1>>, <<0, 1>>, <<3, 2>>}

InitCC ==
    /\ now = 0
    /\ queue = <<>>
    /\ nsched = 0
    /\ qc = QuantumChannel(10, 0, One, SPEED_OF_LIGHT, 2)
    /\ cc \in {ClassicalChannel(0, d) : d \in CDelays}
    /\ assigned = [qchannels |-> {}, cchannels |-> {}]
    /\ calls = [q |-> 0, c |-> 0]
    /\ last = NoCall("none")
    /\ txlog = <<>>
    /\ NoStack

NextCC ==
    \/ CSetEnds("n1", "n2")
    \/ \E m \in Messages, s \in Nodes, p \in Priorities :
          CTransmit(MaxMsgs, m, s, p)
    \/ AdvanceTime
    \/ Dispatch

SpecCC == InitCC /\ [][NextCC]_vars

----------------------------------------------------------------------------
(* SpecFifo: the classical channel of SpecCC with the history of the       *)
(* messages it accepted                                                    *)

NextFifo ==
    \/ CSetEnds("n1", "n2")
    \/ \E m \in Messages, s \in Nodes, p \in Priorities :
          FTransmit(MaxMsgs, m, s, p)
    \/ AdvanceTime
    \/ Dispatch

SpecFifo == InitCC /\ [][NextFifo]_vars

----------------------------------------------------------------------------
(* SpecNet: a quantum and a classical channel, both connected from n1 to   *)
(* n2 and the quantum channel initialised, on one timeline that dispatches *)
(* every event it holds                                                    *)

NetQubits == {Photon("time_bin", FALSE), Photon("fock", FALSE)}

InitNet ==
    /\ now = 0
    /\ queue = <<>>
    /\ nsched = 0
    /\ qc = [QuantumChannel(10, 2, One, SPEED_OF_LIGHT, 2) EXCEPT
                 !.delay = DelayOf(2, SPEED_OF_LIGHT),
                 !.loss = LossOf(2, 10),
                 !.sender = "n1", !.receiver = "n2"]
    /\ cc = [ClassicalChannel(0, <<3, 2>>) EXCEPT
                 !.sender = "n1", !.receiver = "n2"]
    /\ assigned = [qchannels |-> {<<"n1", "n2">>},
                   cchannels |-> {<<"n1", "n2">>}]
    /\ calls = [q |-> 0, c |-> 0]
    /\ last = NoCall("none")
    /\ txlog = <<>>
    /\ NoStack

NextNet ==
    \/ \E q \in NetQubits, d1 \in Draws :
          QTransmit(MaxQubits, q, "n1", d1, 0, FALSE)
    \/ \E p \in Priorities : CTransmit(MaxMsgs, "m1", "n1", p)
    \/ AdvanceTime
    \/ Dispatch

SpecNet == InitNet /\ [][NextNet]_vars /\ WF_vars(Dispatch)

----------------------------------------------------------------------------
(* SpecConv: the two conversions of the slot arithmetic, applied to every  *)
(* slot up to MaxSlot and every frequency of ConvFrequencies               *)

\* timebin_to_time(time_bin, frequency)
TimebinToTime(time_bin, frequency) ==
    /\ last' = Call("timebin_to_time", "ok", <<time_bin, frequency>>,
                    timebin_to_time(time_bin, frequency), -1, <<>>, <<>>,
                    time_bin, None, <<>>, <<>>)
    /\ UNCHANGED <<stack, now, queue, nsched, qc, cc, assigned, calls, txlog>>

\* time_to_timebin applied to the time the last conversion returned; the
\* record keeps the slot that time was computed from
TimeToTimebin ==
    /\ last.op = "timebin_to_time"
    /\ last' = Call("time_to_timebin", "ok", <<last.ret, last.arg[2]>>,
                    time_to_timebin(last.ret, last.arg[2]), -1, <<>>, <<>>,
                    last.time_bin, None, <<>>, <<>>)
    /\ UNCHANGED <<stack, now, queue, nsched, qc, cc, assigned, calls, txlog>>

InitConv ==
    /\ now = 0
    /\ queue = <<>>
    /\ nsched = 0
    /\ qc = QuantumChannel(10, 0, One, SPEED_OF_LIGHT, 2)
    /\ cc = ClassicalChannel(0, <<0, 1>>)
    /\ assigned = [qchannels |-> {}, cchannels |-> {}]
    /\ calls = [q |-> 0, c |-> 0]
    /\ last = NoCall("none")
    /\ txlog = <<>>
    /\ NoStack

NextConv ==
    \/ \E b \in 0..MaxSlot, f \in ConvFrequencies : TimebinToTime(b, f)
    \/ TimeToTimebin

SpecConv == InitConv /\ [][NextConv]_vars

----------------------------------------------------------------------------
(* SpecSetup: the life cycle of the two channels at one simulation time:   *)
(* construction, init, set_distance and set_ends in any order, with        *)
(* reservations and transmit calls from either node at any point of it     *)

InitSetup ==
    /\ now = 0
    /\ queue = <<>>
    /\ nsched = 0
    /\ qc = QuantumChannel(10, 0, One, SPEED_OF_LIGHT, 4)
    /\ cc = ClassicalChannel(0, <<0, 1>>)
    /\ assigned = [qchannels |-> {}, cchannels |-> {}]
    /\ calls = [q |-> 0, c |-> 0]
    /\ last = NoCall("none")
    /\ txlog = <<>>
    /\ NoStack

NextSetup ==
    \/ QInit
    \/ \E d \in Distances : QSetDistance(d)
    \/ QSetEnds("n1", "n2")
    \/ CSetEnds("n1", "n2")
    \/ \E m \in 0..1 : QScheduleTransmit(m)
    \/ \E q \in SlotQubits, s \in Nodes, d1 \in SlotDraws :
          QTransmit(MaxQubits, q, s, d1, 0, FALSE)
    \/ \E s \in Nodes : CTransmit(MaxQubits, "m1", s, 0)

SpecSetup == InitSetup /\ [][NextSetup]_vars

----------------------------------------------------------------------------
(* SpecRouting: one routing layer on node n1: rules are added and updated, *)
(* messages are pushed from above and popped from below; a pushed envelope *)
(* may be popped as the peer layer pops it                                 *)

\* destinations: the empty name, the owner itself, another node
Destinations == {"", "n1", "n3"}

NextHops == {"n2", "n3"}

RECURSIVE Messages_upto(_)
Messages_upto(depth) ==
    IF depth = 0 THEN {Message("REQUEST", "app")}
    ELSE LET inner == Messages_upto(depth - 1)
         IN  inner \cup {StaticRoutingMessage("Enum", "rp2", m) : m \in inner}

\* StaticRoutingProtocol.add_forwarding_rule
RAddForwardingRule(dst, next_node) ==
    /\ LET r == add_forwarding_rule(routing.forwarding_table, dst, next_node)
       IN  routing' = [routing EXCEPT
               !.forwarding_table = r.table,
               !.written = IF r.status = "ok" THEN Put(@, dst, next_node)
                           ELSE @,
               !.last = RCall("add_forwarding_rule", r.status,
                              <<dst, next_node>>, routing.forwarding_table,
                              <<>>, <<>>)]
    /\ UNCHANGED <<channels, protocol, accepted>>

\* StaticRoutingProtocol.update_forwarding_rule
RUpdateForwardingRule(dst, next_node) ==
    /\ routing' = [routing EXCEPT
           !.forwarding_table = update_forwarding_rule(@, dst, next_node),
           !.written = Put(@, dst, next_node),
           !.last = RCall("update_forwarding_rule", "ok", <<dst, next_node>>,
                          routing.forwarding_table, <<>>, <<>>)]
    /\ UNCHANGED <<channels, protocol, accepted>>

\* StaticRoutingProtocol.push
RPush(dst, msg, next_hop) ==
    /\ LET r == push(routing, dst, msg, next_hop)
       IN  routing' = [routing EXCEPT
               !.last = RCall("push", r.status, <<dst, msg, next_hop>>,
                              routing.forwarding_table, r.down, <<>>)]
    /\ UNCHANGED <<channels, protocol, accepted>>

\* StaticRoutingProtocol.pop
RPop(src, msg) ==
    /\ routing' = [routing EXCEPT
           !.last = RCall("pop", "ok", <<src, msg>>,
                          routing.forwarding_table, <<>>,
                          pop(routing, src, msg))]
    /\ UNCHANGED <<channels, protocol, accepted>>

\* the peer layer pops the envelope that the last push delegated
RPopDelegated(src) ==
    /\ routing.last.op = "push" /\ routing.last.down # <<>>
    /\ RPop(src, routing.last.down[1].msg)

InitRouting ==
    /\ now = 0
    /\ queue = <<>>
    /\ nsched = 0
    /\ qc = QuantumChannel(10, 0, One, SPEED_OF_LIGHT, 2)
    /\ cc = ClassicalChannel(0, <<0, 1>>)
    /\ assigned = [qchannels |-> {}, cchannels |-> {}]
    /\ calls = [q |-> 0, c |-> 0]
    /\ last = NoCall("none")
    /\ txlog = <<>>
    /\ accepted = <<>>
    /\ routing \in {StaticRoutingProtocol("n1", "rp1", t) :
                      t \in {NoTable, [d \in {"n3"} |-> "n2"]}}
    /\ protocol = ProtocolState(EntanglementProtocol("n1", "ep1"),
                                [m \in {} |-> None])

NextRouting ==
    \/ \E d \in Destinations, h \in NextHops : RAddForwardingRule(d, h)
    \/ \E d \in Destinations, h \in NextHops : RUpdateForwardingRule(d, h)
    \/ \E d \in Destinations \cup {None}, m \in Messages_upto(MaxDepth),
          h \in {None, "", "n2"} : RPush(d, m, h)
    \/ \E src \in {"n2"}, m \in Messages_upto(MaxDepth) : RPop(src, m)
    \/ RPopDelegated("n2")

SpecRouting == InitRouting /\ [][NextRouting]_vars

----------------------------------------------------------------------------
(* SpecProtocol: one entanglement protocol instance in any state a rule    *)
(* can leave it in (rule attached or not, any memories held), on a node    *)
(* whose memories are in any state                                         *)

Rules == {None, "rule1"}

\* the lists of memories a protocol can hold
Held ==
    {<<>>} \cup {<<m>> : m \in Memories}
           \cup {<<m[1], m[2]>> : m \in {p \in Memories \X Memories :
                                              p[1] # p[2]}}

PUpdateResourceManager(memory, state) ==
    /\ protocol' = update_resource_manager(protocol, memory, state)
    /\ UNCHANGED <<channels, routing, accepted>>

PRelease ==
    /\ protocol' = release(protocol)
    /\ UNCHANGED <<channels, routing, accepted>>

InitProtocol ==
    /\ now = 0
    /\ queue = <<>>
    /\ nsched = 0
    /\ qc = QuantumChannel(10, 0, One, SPEED_OF_LIGHT, 2)
    /\ cc = ClassicalChannel(0, <<0, 1>>)
    /\ assigned = [qchannels |-> {}, cchannels |-> {}]
    /\ calls = [q |-> 0, c |-> 0]
    /\ last = NoCall("none")
    /\ txlog = <<>>
    /\ accepted = <<>>
    /\ routing = StaticRoutingProtocol("n1", "rp1", NoTable)
    /\ protocol \in
           {ProtocolState([EntanglementProtocol("n1", "ep1") EXCEPT
                              !.rule = r, !.memories = h], ms) :
              r \in Rules, h \in Held, ms \in [Memories -> {"RAW", "ENTANGLED"}]}

NextProtocol ==
    \/ \E m \in Memories, st \in MemoryStates : PUpdateResourceManager(m, st)
    \/ PRelease

SpecProtocol == InitProtocol /\ [][NextProtocol]_vars

----------------------------------------------------------------------------
(* SpecLifecycle: the lifecycle of an entanglement protocol instance as    *)
(* the resource manager and the runtime drive it: set_others, the polling  *)
(* of is_ready, start, then success or memory_expire, then release         *)

\* set_others binds the remote protocol
LSetOthers(remote_protocol) ==
    /\ protocol.phase = "uninitialized"
    /\ protocol' = [protocol EXCEPT !.op = "set_others",
                                    !.arg = <<remote_protocol>>,
                                    !.requests = <<>>,
                                    !.peer = remote_protocol,
                                    !.phase = "ready-check"]
    /\ UNCHANGED <<channels, routing, accepted>>

\* is_ready is polled and answers
LIsReady(answer) ==
    /\ protocol.phase = "ready-check"
    /\ protocol' = [protocol EXCEPT !.op = "is_ready", !.arg = <<answer>>,
                                    !.requests = <<>>, !.ready = answer]
    /\ UNCHANGED <<channels, routing, accepted>>

LStart_unready ==
    /\ protocol.phase = "ready-check"
    /\ protocol' = [protocol EXCEPT !.op = "start", !.arg = <<>>,
                                    !.requests = <<>>, !.phase = "running"]
    /\ UNCHANGED <<channels, routing, accepted>>

\* start is invoked once is_ready answered true
LStart ==
    /\ protocol.phase = "ready-check" /\ protocol.ready
    /\ protocol' = [protocol EXCEPT !.op = "start", !.arg = <<>>,
                                    !.requests = <<>>, !.phase = "running"]
    /\ UNCHANGED <<channels, routing, accepted>>

\* the running protocol completes
LSuccess ==
    /\ protocol.phase = "running"
    /\ protocol' = [protocol EXCEPT !.op = "success", !.arg = <<>>,
                                    !.requests = <<>>, !.phase = "terminal"]
    /\ UNCHANGED <<channels, routing, accepted>>

\* the coherence time of a held memory runs out
LMemoryExpire(memory) ==
    /\ protocol.phase \in {"ready-check", "running"}
    /\ memory \in Range(protocol.obj.memories)
    /\ protocol' = [protocol EXCEPT !.op = "memory_expire",
                                    !.arg = <<memory>>, !.requests = <<>>,
                                    !.phase = "terminal"]
    /\ UNCHANGED <<channels, routing, accepted>>

\* release of a terminated instance
LRelease ==
    /\ protocol.phase = "terminal"
    /\ protocol' = [release(protocol) EXCEPT !.phase = "released"]
    /\ UNCHANGED <<channels, routing, accepted>>

NextLifecycle ==
    \/ LSetOthers("ep2")
    \/ \E answer \in BOOLEAN : LIsReady(answer)
    \/ LStart
    \/ LSuccess
    \/ \E m \in Memories : LMemoryExpire(m)
    \/ LRelease

SpecLifecycle == InitProtocol /\ [][NextLifecycle]_vars

----------------------------------------------------------------------------
(* SpecDelay: init() of a quantum channel without attenuation, for every   *)
(* distance up to MaxDistance and every light speed of LightSpeeds         *)

MaxDistance == 5

LightSpeeds == {1, 2, 3, 4}

InitDelay ==
    /\ now = 0
    /\ queue = <<>>
    /\ nsched = 0
    /\ qc \in {QuantumChannel(0, d, One, s, 2) :
                 d \in 0..MaxDistance, s \in LightSpeeds}
    /\ cc = ClassicalChannel(0, <<0, 1>>)
    /\ assigned = [qchannels |-> {}, cchannels |-> {}]
    /\ calls = [q |-> 0, c |-> 0]
    /\ last = NoCall("none")
    /\ txlog = <<>>
    /\ NoStack

NextDelay ==
    \/ QInit
    \/ \E d \in 0..MaxDistance : QSetDistance(d)

SpecDelay == InitDelay /\ [][NextDelay]_vars

----------------------------------------------------------------------------
(* Properties of the slot scheduler (Spec, SpecConv) *)

SlotTimes(bins, frequency) ==
    {timebin_to_time(bins[i], frequency) : i \in 1..Len(bins)}

Consumed == SelectSeq(txlog, LAMBDA b : b # -1)

PassedTransmit == last.op = "qc.transmit" /\ last.status = "ok"

\* C1: on one quantum channel no two transmit calls that consume a
\* reservation and pass their checks happen at the same simulation time, so
\* that at most one qubit is sent per slot.
C1_OneQubitPerSlot == Len(Consumed) <= 1

\* C2: a transmit call passes its timing check only at a time that
\* schedule_transmit returned for a reservation still held; with no
\* reservation, or reservations only later or only earlier, it fails and
\* schedules no event.
C2_TransmitOnlyAtReservedTime ==
    last.op = "qc.transmit" =>
        /\ last.status = "ok" =>
               last.now \in SlotTimes(last.bins, qc.frequency)
        /\ last.status # "ok" => queue = last.queue

\* C2 as amended: with reservations held, a transmit call passes its timing
\* check exactly when one of them has the current time, and a failing call
\* schedules no event; with no reservation held the timing check is skipped
\* and the call goes on.
C2_TransmitTimingCheck ==
    (/\ last.op = "qc.transmit"
     /\ qc.sender # None /\ last.arg[2] = qc.sender
     /\ qc.delay >= 0 /\ qc.loss < One) =>
        /\ last.status = "ok" <=>
               \/ last.bins = <<>>
               \/ last.now \in SlotTimes(last.bins, qc.frequency)
        /\ last.status # "ok" => queue = last.queue

C2_Witness ==
    /\ PassedTransmit
    /\ last.bins # <<>>
    /\ Len(qc.send_bins) = Len(last.bins) - 1

C2_WitnessUnreserved ==
    PassedTransmit /\ last.bins = <<>> /\ last.queue # queue

\* the first slot at or after a time: the least b with b / frequency >= time
CeilSlot(time, frequency) ==
    (time * frequency + PS_PER_SECOND - 1) \div PS_PER_SECOND

\* C3: schedule_transmit(min_time) reserves, with start = max(min_time,
\* now), the smallest slot at or after start that is not reserved yet, adds
\* exactly that slot to the reservations and returns a time >= start.
C3_EarliestSlotAtOrAfter ==
    last.op = "qc.schedule_transmit" =>
        LET start == Max(last.arg[1], last.now)
            first == CeilSlot(start, qc.frequency)
        IN  /\ last.time_bin >= first
            /\ last.time_bin \notin Range(last.bins)
            /\ \A b \in first..last.time_bin - 1 : b \in Range(last.bins)
            /\ Range(qc.send_bins) = Range(last.bins) \cup {last.time_bin}
            /\ Len(qc.send_bins) = Len(last.bins) + 1
            /\ last.ret >= start

\* two schedule_transmit calls in a row, the first on a channel with no
\* reservation, both with the same min_time
TwiceSameMinTime ==
    /\ last.op = "qc.schedule_transmit" /\ last.bins = <<>>
    /\ last'.op = "qc.schedule_transmit" /\ last'.bins # <<>>
    /\ last'.arg = last.arg

\* C4: schedule_transmit called twice with the same min_time on a channel
\* with no reservation returns two distinct times, the second exactly one
\* slot period (PS_PER_SECOND / frequency time units) after the first.
C4_SecondOnePeriodLater ==
    [][TwiceSameMinTime =>
          /\ last'.ret # last.ret
          /\ (last'.ret - last.ret) * qc.frequency = PS_PER_SECOND]_vars

\* C4 as amended: the two calls reserve consecutive slots b and b + 1 and
\* return their times; the second time is later by the slot period rounded
\* down or up to a whole time unit, which is exactly the period when the
\* period is a whole number of time units, and the two times are distinct
\* when the frequency is at most one slot per time unit.
C4_SecondOneSlotLater ==
    [][TwiceSameMinTime =>
          /\ last'.time_bin = last.time_bin + 1
          /\ (last'.ret - last.ret) * qc.frequency > PS_PER_SECOND - qc.frequency
          /\ (last'.ret - last.ret) * qc.frequency < PS_PER_SECOND + qc.frequency
          /\ PS_PER_SECOND % qc.frequency = 0 =>
                 (last'.ret - last.ret) * qc.frequency = PS_PER_SECOND
          /\ qc.frequency <= PS_PER_SECOND => last'.ret # last.ret]_vars

C4_Witness ==
    /\ last.op = "qc.schedule_transmit"
    /\ Len(last.bins) = 1
    /\ last.time_bin = last.bins[1] + 1
    /\ PS_PER_SECOND % qc.frequency # 0
    /\ last.ret = timebin_to_time(last.bins[1], qc.frequency) + 2

RoundTrip == last.op = "time_to_timebin"

\* C5: time-bin round trip: for every slot s >= 0 and every frequency f > 0,
\* time_to_timebin(timebin_to_time(s, f), f) = s.
C5_RoundTrip == RoundTrip => last.ret = last.time_bin

\* C5 as amended: the round trip returns s for every slot s >= 0 and every
\* frequency f with 0 < f <= (1 - EPSILON) * PS_PER_SECOND, that is, with a
\* slot period of at least 1 / (1 - EPSILON) time units.
C5_RoundTripSlowEnough ==
    (/\ RoundTrip
     /\ last.arg[2] * EPSILON_MPFR[2]
            <= (EPSILON_MPFR[2] - EPSILON_MPFR[1]) * PS_PER_SECOND) =>
        last.ret = last.time_bin

C5_Witness ==
    /\ RoundTrip
    /\ last.arg[2] = 4
    /\ last.time_bin = 3
    /\ last.arg[1] = 4
    /\ last.ret = 3

----------------------------------------------------------------------------
(* Properties of the classical channel (SpecCC) and of arrivals (SpecNet)  *)

AcceptedMessage == last.op = "cc.transmit" /\ last.status = "ok"

Without(q, i) == SubSeq(q, 1, i - 1) \o SubSeq(q, i + 1, Len(q))

ChannelDelay(e) ==
    IF e.activation = "receive_qubit" THEN qc.delay ELSE cc.delay

\* a step leaves the scheduled arrivals as they are, or adds one that is due
\* the channel's delay after the call, or dispatches one of them at its time
ArrivalsKept ==
    \/ queue' = queue
    \/ /\ Len(queue') = Len(queue) + 1
       /\ SubSeq(queue', 1, Len(queue)) = queue
       /\ last'.op \in {"qc.transmit", "cc.transmit"}
       /\ queue'[Len(queue')].time = now + ChannelDelay(queue'[Len(queue')])
    \/ \E i \in 1..Len(queue) :
           /\ queue' = Without(queue, i)
           /\ last'.op = "dispatch" /\ last'.arg = <<queue[i]>>
           /\ now' = queue[i].time

----------------------------------------------------------------------------
(* Properties of the loss and noise model (SpecLoss) *)

\* the arrival event of the photon the last transmit call handled
ArrivalOf(photon) ==
    [time |-> last.now + qc.delay, priority |-> inf, owner |-> qc.receiver,
     activation |-> "receive_qubit", args |-> <<qc.sender, photon>>]

\* C8: a quantum channel with loss = 0 and polarization_fidelity = 1
\* delivers every non-null, non-Fock qubit unmodified: whatever the random
\* source returns, a transmit call that passes its checks schedules exactly
\* one arrival event and applies neither loss bookkeeping nor noise.
C8_LosslessDelivers ==
    (/\ PassedTransmit
     /\ qc.loss = 0 /\ qc.polarization_fidelity = One
     /\ last.arg[1].encoding # "fock" /\ ~last.arg[1].is_null) =>
        /\ last.photon = last.arg[1]
        /\ queue = Append(last.queue, ArrivalOf(last.arg[1]))

\* C9: for a qubit that is not Fock-encoded, a transmit call that passes its
\* checks schedules an arrival event exactly when the loss trial succeeds
\* (draw > loss) or the qubit is null; it is then the one event at
\* now + delay for receive_qubit of the receiver, with the sender's name and
\* the qubit, and a null qubit has the channel's loss added to its
\* bookkeeping; when the trial fails for a qubit that is not null nothing is
\* scheduled and no error is raised.
C9_LossTrial ==
    (last.op = "qc.transmit" /\ last.arg[1].encoding # "fock"
     /\ last.status \in {"ok"}) =>
        LET qubit == last.arg[1]
            kept == last.arg[3] > qc.loss \/ qubit.is_null
        IN  /\ kept <=> queue # last.queue
            /\ kept => /\ queue = Append(last.queue, ArrivalOf(last.photon))
                       /\ last.photon.encoding = qubit.encoding
                       /\ last.photon.is_null = qubit.is_null
                       /\ last.photon.loss
                              = IF qubit.is_null THEN <<qc.loss>> ELSE <<>>
            /\ ~kept => queue = last.queue /\ last.photon = qubit

C9_WitnessNull ==
    /\ PassedTransmit
    /\ last.arg[1].encoding = "polarization" /\ last.arg[1].is_null
    /\ last.arg[3] = 0 /\ qc.loss = 990
    /\ last.photon.loss = <<990>>
    /\ Len(queue) = 1 /\ queue[1].time = now + 1

C9_WitnessLost ==
    /\ PassedTransmit
    /\ last.arg[1].encoding = "time_bin" /\ ~last.arg[1].is_null
    /\ last.arg[3] = 0 /\ qc.loss = 990
    /\ queue = <<>>

\* C10: for a Fock-encoded qubit a transmit call that passes its checks
\* makes no accept/reject trial: it applies the channel's loss once to the
\* qubit's quantum-state key and always schedules exactly one arrival event
\* at now + delay, whatever the loss and whether or not the qubit is null.
C10_FockAlwaysDelivered ==
    (PassedTransmit /\ last.arg[1].encoding = "fock") =>
        /\ last.trials = <<>>
        /\ last.qm = <<<<"add_loss", qc.loss>>>>
        /\ last.photon = last.arg[1]
        /\ queue = Append(last.queue, ArrivalOf(last.arg[1]))

C10_Witness ==
    /\ PassedTransmit
    /\ last.arg[1].encoding = "fock" /\ last.arg[1].is_null
    /\ last.arg[3] = 0 /\ qc.loss = 990
    /\ Len(queue) = 1 /\ queue[1].time = now + 1

NoiseTrialMade == "noise" \in Range(last.trials)

\* C11: the depolarizing-noise trial of QuantumChannel.transmit is made for
\* qubits that survived the loss trial, are not null and are polarization
\* encoded, and for no other qubit: a null qubit and a qubit of another
\* encoding never receive depolarizing noise.
C11_NoiseTrialNonNullPolarization ==
    PassedTransmit =>
        LET qubit == last.arg[1]
        IN  /\ NoiseTrialMade <=>
                   /\ qubit.encoding = "polarization" /\ ~qubit.is_null
                   /\ last.arg[3] > qc.loss
            /\ (qubit.is_null \/ qubit.encoding # "polarization") =>
                   ~last.photon.noise

\* C11 as amended: the noise trial is made exactly for the polarization
\* encoded qubits that are kept (loss trial succeeded, or null), null ones
\* included; the qubit receives noise exactly when the trial is made and its
\* draw exceeds the polarization fidelity, so a qubit of another encoding
\* never receives noise.
C11_NoiseTrialPolarization ==
    PassedTransmit =>
        LET qubit == last.arg[1]
        IN  /\ NoiseTrialMade <=>
                   /\ qubit.encoding = "polarization"
                   /\ (last.arg[3] > qc.loss \/ qubit.is_null)
            /\ last.photon.noise <=>
                   (NoiseTrialMade /\ last.arg[4] > qc.polarization_fidelity)

C11_Witness ==
    /\ PassedTransmit
    /\ last.arg[1].encoding = "polarization" /\ last.arg[1].is_null
    /\ last.arg[3] = 0 /\ qc.loss = 990
    /\ last.arg[4] = 995 /\ qc.polarization_fidelity = 500
    /\ last.photon.noise
    /\ Len(queue) = 1 /\ queue[1].args[2].noise

----------------------------------------------------------------------------
(* Properties of the channels' life cycle (SpecSetup) *)

Unset == qc.delay = -1 /\ qc.loss = One

\* C12: delay and loss hold their unset sentinels (delay = -1, loss = 1)
\* from construction until init() runs, and every QuantumChannel.transmit
\* attempted before init() fails without scheduling an event or changing
\* the reservation set.
C12_UnsetUntilInit ==
    /\ Unset
    /\ [][Unset =>
             /\ last'.op # "qc.init" => (qc'.delay = -1 /\ qc'.loss = One)
             /\ last'.op = "qc.transmit" =>
                    /\ last'.status # "ok"
                    /\ queue' = queue
                    /\ qc'.send_bins = qc.send_bins]_vars

C12_Witness ==
    /\ last.op = "qc.transmit" /\ last.status = "AssertionError"
    /\ Unset
    /\ qc.sender = "n1" /\ last.arg[2] = "n1"
    /\ last.bins = <<0>> /\ last.now = 0

\* C13: on both channel kinds a transmit whose declared source is not the
\* sender bound by set_ends fails: it schedules no arrival event and, on a
\* quantum channel, leaves the reservation set unchanged.
C13_WrongSourceFails ==
    /\ (/\ last.op = "qc.transmit"
        /\ qc.sender # None /\ last.arg[2] # qc.sender) =>
           /\ last.status # "ok"
           /\ queue = last.queue
           /\ qc.send_bins = last.bins
    /\ (/\ last.op = "cc.transmit"
        /\ cc.sender # None /\ last.arg[2] # cc.sender) =>
           /\ last.status # "ok"
           /\ queue = last.queue

C13_Witness ==
    /\ last.op = "qc.transmit" /\ last.status = "AssertionError"
    /\ qc.sender = "n1" /\ last.arg[2] = "n2"
    /\ initialised(qc)
    /\ last.bins = <<0>> /\ last.now = 0

C13_WitnessClassical ==
    /\ last.op = "cc.transmit" /\ last.status = "AssertionError"
    /\ cc.sender = "n1" /\ last.arg[2] = "n2"

\* C14: both endpoints are bound before use: a transmit on a quantum or
\* classical channel on which set_ends was never called fails and
\* schedules no arrival event; set_ends binds the sender and the receiver
\* name and registers the channel with the sender for that receiver.
C14_EndsBoundBeforeUse ==
    /\ (last.op = "qc.transmit" /\ qc.sender = None) =>
           /\ last.status # "ok"
           /\ queue = last.queue
           /\ qc.send_bins = last.bins
    /\ (last.op = "cc.transmit" /\ cc.sender = None) =>
           /\ last.status # "ok"
           /\ queue = last.queue
    /\ last.op = "qc.set_ends" =>
           /\ qc.sender = last.arg[1] /\ qc.receiver = last.arg[2]
           /\ <<last.arg[1], last.arg[2]>> \in assigned.qchannels
    /\ last.op = "cc.set_ends" =>
           /\ cc.sender = last.arg[1] /\ cc.receiver = last.arg[2]
           /\ <<last.arg[1], last.arg[2]>> \in assigned.cchannels
    /\ (qc.sender = None) <=> (<<"n1", "n2">> \notin assigned.qchannels)
    /\ (qc.sender = None) <=> (qc.receiver = None)
    /\ (cc.sender = None) <=> (cc.receiver = None)

C14_Witness ==
    /\ last.op = "qc.transmit" /\ last.status = "AttributeError"
    /\ qc.sender = None
    /\ initialised(qc)
    /\ last.bins = <<0>> /\ last.now = 0
    /\ cc.sender = "n1" /\ assigned.cchannels = {<<"n1", "n2">>}

\* C15: once init() has run the physical parameters are fixed, so that in
\* every later state delay and loss equal the values derived from the
\* current distance, attenuation and light speed.
C15_DerivedFromCurrent ==
    ~Unset =>
        /\ qc.delay = DelayOf(qc.distance, qc.light_speed)
        /\ qc.loss = LossOf(qc.distance, qc.attenuation)

----------------------------------------------------------------------------
(* Properties of the routing layer (SpecRouting) *)

Pushed == routing.last.op = "push"

\* C16: push with a destination that has a forwarding-table entry makes
\* exactly one downward delegation, addressed to forwarding_table[dst], of a
\* routing envelope whose receiver tag is this layer's own name and whose
\* payload is the unmodified message; the forwarding table is left unchanged.
C16_PushKnownDestination ==
    (Pushed /\ routing.last.arg[1] \in DOMAIN routing.last.table) =>
        /\ routing.last.status = "ok"
        /\ routing.last.down =
               <<[dst |-> routing.last.table[routing.last.arg[1]],
                  msg |-> StaticRoutingMessage("Enum", routing.name,
                                               routing.last.arg[2])]>>
        /\ routing.forwarding_table = routing.last.table

\* C17: push fails when dst is given but has no forwarding-table entry, and
\* when both dst and next_hop are absent; when dst is omitted and next_hop
\* is given the envelope is delegated directly to next_hop.  A failing push
\* delegates nothing downward and leaves the forwarding table unchanged.
C17_PushFailures ==
    Pushed =>
        LET dst == routing.last.arg[1]
            next_hop == routing.last.arg[3]
        IN  /\ (dst # None /\ dst \notin DOMAIN routing.last.table) =>
                   routing.last.status # "ok"
            /\ (dst = None /\ next_hop = None) => routing.last.status # "ok"
            /\ (dst = None /\ next_hop # None) =>
                   /\ routing.last.status = "ok"
                   /\ routing.last.down =
                          <<[dst |-> next_hop,
                             msg |-> StaticRoutingMessage("Enum",
                                         routing.name, routing.last.arg[2])]>>
            /\ routing.last.status # "ok" => routing.last.down = <<>>
            /\ routing.forwarding_table = routing.last.table

\* C18: add_forwarding_rule(dst, next_node) fails when dst already has an
\* entry and then leaves the whole table unchanged; when dst is absent it
\* adds exactly that entry.  update_forwarding_rule(dst, next_node) always
\* succeeds and sets the entry of dst to next_node, leaving every other
\* entry unchanged.  After any sequence of the two the table maps each
\* destination to the next hop of the last successful operation on it.
C18_ForwardingRules ==
    LET before == routing.last.table
        table == routing.forwarding_table
        dst == routing.last.arg[1]
        next_node == routing.last.arg[2]
    IN  /\ routing.last.op = "add_forwarding_rule" =>
               IF dst \in DOMAIN before
               THEN routing.last.status # "ok" /\ table = before
               ELSE /\ routing.last.status = "ok"
                    /\ DOMAIN table = DOMAIN before \cup {dst}
                    /\ table[dst] = next_node
                    /\ \A d \in DOMAIN before : table[d] = before[d]
        /\ routing.last.op = "update_forwarding_rule" =>
               /\ routing.last.status = "ok"
               /\ DOMAIN table = DOMAIN before \cup {dst}
               /\ table[dst] = next_node
               /\ \A d \in DOMAIN before \ {dst} : table[d] = before[d]
        /\ table = routing.written

C18_Witness ==
    /\ routing.last.op = "add_forwarding_rule"
    /\ routing.last.status = "AssertionError"
    /\ routing.last.arg = <<"n3", "n2">>
    /\ routing.forwarding_table = [d \in {"n3", ""} |-> "n3"]

RECURSIVE Depth(_)
Depth(msg) ==
    IF msg.payload = NonePayload THEN 0 ELSE 1 + Depth(msg.payload)

\* the peer's pop of the envelope that the push before it delegated
PopOfPushed ==
    /\ Pushed /\ routing.last.status = "ok"
    /\ routing'.last.op = "pop"
    /\ routing'.last.arg[2] = routing.last.down[1].msg

\* C19: pop(src, envelope) strips exactly one routing envelope and delivers
\* the inner payload, with the same src, to the layer above; it delegates
\* nothing downward and leaves the forwarding table alone.  So the envelope
\* that push(m) produced is turned back into m by the peer's pop, also when
\* m is itself a routing envelope: the nesting depth goes down by one.
C19_PopUnwraps ==
    /\ [](routing.last.op = "pop" =>
              /\ routing.last.status = "ok"
              /\ routing.last.up = <<[src |-> routing.last.arg[1],
                                      msg |-> routing.last.arg[2].payload]>>
              /\ routing.last.down = <<>>
              /\ routing.forwarding_table = routing.last.table)
    /\ [][PopOfPushed =>
              /\ routing'.last.up[1].msg = routing.last.arg[2]
              /\ Depth(routing'.last.arg[2])
                     = Depth(routing'.last.up[1].msg) + 1]_vars

C19_Witness ==
    /\ routing.last.op = "pop"
    /\ routing.last.arg[2].receiver = "rp1"
    /\ Depth(routing.last.arg[2]) = 2
    /\ routing.last.up[1].msg.receiver = "rp2"
    /\ Depth(routing.last.up[1].msg) = 1

----------------------------------------------------------------------------
(* Properties of the entanglement protocol interface (SpecProtocol) *)

C20_WitnessRelease ==
    /\ protocol.op = "release"
    /\ protocol.obj.memories = <<"mem1">>

Terminated == protocol.phase \in {"terminal", "released"}

C21_WitnessStart ==
    protocol.op = "start" /\ protocol.phase = "running"

----------------------------------------------------------------------------
(* Properties of the derived delay (SpecDelay) *)

Abs(x) == IF x >= 0 THEN x ELSE -x

\* C22: after init() on a channel with distance >= 0 and light speed > 0,
\* delay is a non-negative integer equal to distance / speed rounded to the
\* nearest integer (no integer is nearer to the quotient), and delay = 0
\* when distance = 0.
C22_DelayNearestInteger ==
    last.op = "qc.init" =>
        /\ qc.delay \in Nat
        /\ 2 * Abs(qc.delay * qc.light_speed - qc.distance) <= qc.light_speed
        /\ qc.distance = 0 => qc.delay = 0

C22_Witness ==
    /\ last.op = "qc.init"
    /\ qc.distance = 5 /\ qc.light_speed = 2
    /\ qc.delay = 2

C22_WitnessUp ==
    /\ last.op = "qc.init"
    /\ qc.distance = 3 /\ qc.light_speed = 4
    /\ qc.delay = 1

----------------------------------------------------------------------------
(* Properties of the reservations across transmit calls (Spec) *)

SlotTime(b) == timebin_to_time(b, qc.frequency)

PassedWithReservations == PassedTransmit /\ last.bins # <<>>

\* C23: past-due reservations are purged: right after a transmit call that
\* passes its timing check on a channel that had reservations, no reserved
\* slot has a time earlier than or equal to now, and every reservation with
\* a later time is still present.
C23_NoneDueAfterTransmit ==
    PassedWithReservations =>
        /\ \A b \in Range(qc.send_bins) : SlotTime(b) > last.now
        /\ \A b \in Range(last.bins) :
               SlotTime(b) > last.now => b \in Range(qc.send_bins)

\* C23 as amended: right after such a call every reservation up to and
\* including the consumed slot is gone, so that no reserved slot has a time
\* earlier than now, and every reservation of a later slot is still
\* present; no reserved slot has the time now either when the frequency is
\* at most one slot per time unit.
C23_PurgedUpToConsumed ==
    PassedWithReservations =>
        /\ \A b \in Range(qc.send_bins) :
               b > last.time_bin /\ SlotTime(b) >= last.now
        /\ \A b \in Range(last.bins) :
               b > last.time_bin => b \in Range(qc.send_bins)
        /\ qc.frequency <= PS_PER_SECOND =>
               \A b \in Range(qc.send_bins) : SlotTime(b) > last.now

C23_Witness ==
    /\ PassedWithReservations
    /\ Len(last.bins) = 2
    /\ SlotTime(last.bins[1]) < last.now
    /\ SlotTime(last.bins[2]) = last.now
    /\ qc.send_bins = <<>>

C23_WitnessLaterKept ==
    /\ PassedWithReservations
    /\ Len(last.bins) = 2
    /\ Len(qc.send_bins) = 1 /\ SlotTime(qc.send_bins[1]) > last.now

SmallestReserved(bins) ==
    CHOOSE b \in Range(bins) : \A o \in Range(bins) : b <= o

\* C24: in every reachable state of a channel driven by schedule_transmit
\* and transmit calls the reservations hold no slot index twice and are in
\* min-heap order, so the slot that transmit removes first (heappop) is the
\* smallest reserved index.
C24_HeapOfDistinctSlots ==
    /\ Cardinality(Range(qc.send_bins)) = Len(qc.send_bins)
    /\ IsHeap(qc.send_bins)
    /\ qc.send_bins # <<>> =>
           /\ heappop(qc.send_bins)[1] = SmallestReserved(qc.send_bins)
           /\ Range(heappop(qc.send_bins)[2]) =
                  Range(qc.send_bins) \ {SmallestReserved(qc.send_bins)}

\* a later call reserved a smaller slot, which moved to the front
C24_Witness ==
    /\ last.op = "qc.schedule_transmit"
    /\ Len(last.bins) = 1
    /\ last.time_bin < last.bins[1]
    /\ qc.send_bins = <<last.time_bin, last.bins[1]>>

\* transmit consumed the smaller of two reservations
C24_WitnessTransmit ==
    /\ PassedTransmit
    /\ Len(last.bins) = 2
    /\ last.time_bin = SmallestReserved(last.bins)
    /\ qc.send_bins = <<last.bins[2]>>

\* a transmit call that reached its slot check with reservations held
SlotChecked ==
    /\ last.op = "qc.transmit"
    /\ last.bins # <<>>
    /\ qc.sender # None /\ initialised(qc) /\ source_is_sender(qc, last.arg[2])

\* the reservations of the call's start that were not yet due
NotYetDue == {b \in Range(last.bins) : SlotTime(b) >= last.now}

\* C25: a transmit call whose earliest not-yet-due reservation lies in the
\* future fails its slot-time check, and fails having removed every
\* past-due slot and that future slot: the reservations left are exactly
\* the ones after that slot, so the channel state is not the one the call
\* started from and the reservation is no longer there at the slot's time.
C25_FailedCheckConsumes ==
    (/\ SlotChecked
     /\ NotYetDue # {}
     /\ SlotTime(CHOOSE b \in NotYetDue : \A o \in NotYetDue : b <= o)
            > last.now)
    => LET slot == CHOOSE b \in NotYetDue : \A o \in NotYetDue : b <= o
       IN  /\ last.status = "AssertionError"
           /\ Range(qc.send_bins) = {b \in Range(last.bins) : b > slot}
           /\ slot \notin Range(qc.send_bins)
           /\ qc.send_bins # last.bins
           /\ queue = last.queue

\* a failing call that removed a past-due slot and the future slot
C25_Witness ==
    /\ SlotChecked
    /\ last.status = "AssertionError"
    /\ Len(last.bins) = 2
    /\ SlotTime(last.bins[1]) < last.now
    /\ SlotTime(last.bins[2]) > last.now
    /\ qc.send_bins = <<>>

\* a failing call that removed the future slot and kept a later one
C25_WitnessLaterKept ==
    /\ SlotChecked
    /\ last.status = "AssertionError"
    /\ Len(last.bins) = 2
    /\ Len(qc.send_bins) = 1

----------------------------------------------------------------------------
(* Order of delivery on the classical channel (SpecFifo) *)

\* C26: messages leave a classical channel in the order of their transmit
\* calls: of two messages accepted at call times t1 < t2 the arrival event
\* of the first is scheduled at a strictly earlier time than the arrival
\* event of the second, whatever the priorities given by the caller.
C26_FifoDelivery ==
    /\ \A i, j \in 1..Len(accepted) :
           accepted[i].time < accepted[j].time =>
               accepted[i].event.time < accepted[j].event.time
    /\ AcceptedMessage =>
           /\ accepted # <<>>
           /\ accepted[Len(accepted)] =
                  [time |-> last.now, event |-> queue[Len(queue)]]

\* two messages accepted at different times, the later one with the more
\* urgent priority, the first one already delivered
C26_Witness ==
    /\ AcceptedMessage
    /\ Len(accepted) = 2
    /\ accepted[1].time < accepted[2].time
    /\ accepted[1].event.priority = 1 /\ accepted[2].event.priority = 0
    /\ Len(queue) = 1

\* both arrival events still held by the timeline
C26_WitnessPending ==
    /\ Len(accepted) = 2
    /\ accepted[1].time < accepted[2].time
    /\ accepted[1].event.priority = 0 /\ accepted[2].event.priority = 1
    /\ Len(queue) = 2

----------------------------------------------------------------------------
(* push with both a destination and a next hop (SpecRouting) *)

\* C27: when push is given both dst and next_hop (dst not the node's own
\* name), the next_hop is ignored: the envelope is delegated to
\* forwarding_table[dst], and when dst has no entry the push fails, with
\* nothing delegated, instead of falling back to the next_hop.
C27_NextHopIgnored ==
    LET dst == routing.last.arg[1]
        next_hop == routing.last.arg[3]
    IN  (Pushed /\ dst # None /\ next_hop # None /\ dst # routing.owner) =>
            /\ dst \in DOMAIN routing.last.table =>
                   /\ routing.last.status = "ok"
                   /\ routing.last.down =
                          <<[dst |-> routing.last.table[dst],
                             msg |-> StaticRoutingMessage("Enum",
                                         routing.name, routing.last.arg[2])]>>
            /\ dst \notin DOMAIN routing.last.table =>
                   /\ routing.last.status # "ok"
                   /\ routing.last.down = <<>>

\* C28: push with dst equal to the owning node's own name fails before any
\* envelope is delegated, also when the forwarding table holds an entry for
\* that name and also when a next_hop is supplied; the forwarding table is
\* unchanged.
C28_PushToSelfFails ==
    (Pushed /\ routing.last.arg[1] = routing.owner) =>
        /\ routing.last.status = "AssertionError"
        /\ routing.last.down = <<>>
        /\ routing.forwarding_table = routing.last.table

C28_Witness ==
    /\ Pushed
    /\ routing.last.arg[1] = routing.owner
    /\ routing.owner \in DOMAIN routing.last.table
    /\ routing.last.arg[3] = "n2"
    /\ routing.last.status = "AssertionError"
    /\ routing.last.down = <<>>

=============================================================================
